---- MODULE Spec2Model ----
(***************************************************************************)
(* Model of the temperature pipeline of tsensor_analysis:                  *)
(*   process_temperature_data.py  parse_data_file, read_template_mapping,  *)
(*                                calculate_average_temps, write_title,    *)
(*                                write_block_to_excel, apply_color_scale  *)
(*   process_temperature_gui.py   run_pipeline, TemperatureGUI's           *)
(*                                on_start_clicked, worker thread and main *)
(*                                loop                                     *)
(* Spec is one call of run_pipeline, SpecAnyOrder the same call with the   *)
(* maps visited in any order, SpecGui the window with its worker thread.   *)
(* Text is a sequence of characters: a one-character string, or the name   *)
(* "U+hhhh" of a character a string here cannot spell.  A Python dict is an *)
(* association list in insertion order, a float is an exact fraction.       *)
(***************************************************************************)
EXTENDS Integers, Sequences, FiniteSets

\* Number of lines of the log file explored.
MaxLines == 3

(***************************************************************************)
(* Text helpers                                                            *)
(***************************************************************************)
AsciiDigits == {"0", "1", "2", "3", "4", "5", "6", "7", "8", "9"}

\* The decimal digits outside ASCII (Unicode category Nd), which \d, int()
\* and float() take as well.  They come in runs of ten consecutive code
\* points, the k-th character of a run being the digit k - 1.
UnicodeDigitRuns ==
    <<
       <<"U+0660", "U+0661", "U+0662", "U+0663", "U+0664",
         "U+0665", "U+0666", "U+0667", "U+0668", "U+0669">>,
       <<"U+06F0", "U+06F1", "U+06F2", "U+06F3", "U+06F4",
         "U+06F5", "U+06F6", "U+06F7", "U+06F8", "U+06F9">>,
       <<"U+07C0", "U+07C1", "U+07C2", "U+07C3", "U+07C4",
         "U+07C5", "U+07C6", "U+07C7", "U+07C8", "U+07C9">>,
       <<"U+0966", "U+0967", "U+0968", "U+0969", "U+096A",
         "U+096B", "U+096C", "U+096D", "U+096E", "U+096F">>,
       <<"U+09E6", "U+09E7", "U+09E8", "U+09E9", "U+09EA",
         "U+09EB", "U+09EC", "U+09ED", "U+09EE", "U+09EF">>,
       <<"U+0A66", "U+0A67", "U+0A68", "U+0A69", "U+0A6A",
         "U+0A6B", "U+0A6C", "U+0A6D", "U+0A6E", "U+0A6F">>,
       <<"U+0AE6", "U+0AE7", "U+0AE8", "U+0AE9", "U+0AEA",
         "U+0AEB", "U+0AEC", "U+0AED", "U+0AEE", "U+0AEF">>,
       <<"U+0B66", "U+0B67", "U+0B68", "U+0B69", "U+0B6A",
         "U+0B6B", "U+0B6C", "U+0B6D", "U+0B6E", "U+0B6F">>,
       <<"U+0BE6", "U+0BE7", "U+0BE8", "U+0BE9", "U+0BEA",
         "U+0BEB", "U+0BEC", "U+0BED", "U+0BEE", "U+0BEF">>,
       <<"U+0C66", "U+0C67", "U+0C68", "U+0C69", "U+0C6A",
         "U+0C6B", "U+0C6C", "U+0C6D", "U+0C6E", "U+0C6F">>,
       <<"U+0CE6", "U+0CE7", "U+0CE8", "U+0CE9", "U+0CEA",
         "U+0CEB", "U+0CEC", "U+0CED", "U+0CEE", "U+0CEF">>,
       <<"U+0D66", "U+0D67", "U+0D68", "U+0D69", "U+0D6A",
         "U+0D6B", "U+0D6C", "U+0D6D", "U+0D6E", "U+0D6F">>,
       <<"U+0DE6", "U+0DE7", "U+0DE8", "U+0DE9", "U+0DEA",
         "U+0DEB", "U+0DEC", "U+0DED", "U+0DEE", "U+0DEF">>,
       <<"U+0E50", "U+0E51", "U+0E52", "U+0E53", "U+0E54",
         "U+0E55", "U+0E56", "U+0E57", "U+0E58", "U+0E59">>,
       <<"U+0ED0", "U+0ED1", "U+0ED2", "U+0ED3", "U+0ED4",
         "U+0ED5", "U+0ED6", "U+0ED7", "U+0ED8", "U+0ED9">>,
       <<"U+0F20", "U+0F21", "U+0F22", "U+0F23", "U+0F24",
         "U+0F25", "U+0F26", "U+0F27", "U+0F28", "U+0F29">>,
       <<"U+1040", "U+1041", "U+1042", "U+1043", "U+1044",
         "U+1045", "U+1046", "U+1047", "U+1048", "U+1049">>,
       <<"U+1090", "U+1091", "U+1092", "U+1093", "U+1094",
         "U+1095", "U+1096", "U+1097", "U+1098", "U+1099">>,
       <<"U+17E0", "U+17E1", "U+17E2", "U+17E3", "U+17E4",
         "U+17E5", "U+17E6", "U+17E7", "U+17E8", "U+17E9">>,
       <<"U+1810", "U+1811", "U+1812", "U+1813", "U+1814",
         "U+1815", "U+1816", "U+1817", "U+1818", "U+1819">>,
       <<"U+1946", "U+1947", "U+1948", "U+1949", "U+194A",
         "U+194B", "U+194C", "U+194D", "U+194E", "U+194F">>,
       <<"U+19D0", "U+19D1", "U+19D2", "U+19D3", "U+19D4",
         "U+19D5", "U+19D6", "U+19D7", "U+19D8", "U+19D9">>,
       <<"U+1A80", "U+1A81", "U+1A82", "U+1A83", "U+1A84",
         "U+1A85", "U+1A86", "U+1A87", "U+1A88", "U+1A89">>,
       <<"U+1A90", "U+1A91", "U+1A92", "U+1A93", "U+1A94",
         "U+1A95", "U+1A96", "U+1A97", "U+1A98", "U+1A99">>,
       <<"U+1B50", "U+1B51", "U+1B52", "U+1B53", "U+1B54",
         "U+1B55", "U+1B56", "U+1B57", "U+1B58", "U+1B59">>,
       <<"U+1BB0", "U+1BB1", "U+1BB2", "U+1BB3", "U+1BB4",
         "U+1BB5", "U+1BB6", "U+1BB7", "U+1BB8", "U+1BB9">>,
       <<"U+1C40", "U+1C41", "U+1C42", "U+1C43", "U+1C44",
         "U+1C45", "U+1C46", "U+1C47", "U+1C48", "U+1C49">>,
       <<"U+1C50", "U+1C51", "U+1C52", "U+1C53", "U+1C54",
         "U+1C55", "U+1C56", "U+1C57", "U+1C58", "U+1C59">>,
       <<"U+A620", "U+A621", "U+A622", "U+A623", "U+A624",
         "U+A625", "U+A626", "U+A627", "U+A628", "U+A629">>,
       <<"U+A8D0", "U+A8D1", "U+A8D2", "U+A8D3", "U+A8D4",
         "U+A8D5", "U+A8D6", "U+A8D7", "U+A8D8", "U+A8D9">>,
       <<"U+A900", "U+A901", "U+A902", "U+A903", "U+A904",
         "U+A905", "U+A906", "U+A907", "U+A908", "U+A909">>,
       <<"U+A9D0", "U+A9D1", "U+A9D2", "U+A9D3", "U+A9D4",
         "U+A9D5", "U+A9D6", "U+A9D7", "U+A9D8", "U+A9D9">>,
       <<"U+A9F0", "U+A9F1", "U+A9F2", "U+A9F3", "U+A9F4",
         "U+A9F5", "U+A9F6", "U+A9F7", "U+A9F8", "U+A9F9">>,
       <<"U+AA50", "U+AA51", "U+AA52", "U+AA53", "U+AA54",
         "U+AA55", "U+AA56", "U+AA57", "U+AA58", "U+AA59">>,
       <<"U+ABF0", "U+ABF1", "U+ABF2", "U+ABF3", "U+ABF4",
         "U+ABF5", "U+ABF6", "U+ABF7", "U+ABF8", "U+ABF9">>,
       <<"U+FF10", "U+FF11", "U+FF12", "U+FF13", "U+FF14",
         "U+FF15", "U+FF16", "U+FF17", "U+FF18", "U+FF19">>,
       <<"U+104A0", "U+104A1", "U+104A2", "U+104A3", "U+104A4",
         "U+104A5", "U+104A6", "U+104A7", "U+104A8", "U+104A9">>,
       <<"U+10D30", "U+10D31", "U+10D32", "U+10D33", "U+10D34",
         "U+10D35", "U+10D36", "U+10D37", "U+10D38", "U+10D39">>,
       <<"U+11066", "U+11067", "U+11068", "U+11069", "U+1106A",
         "U+1106B", "U+1106C", "U+1106D", "U+1106E", "U+1106F">>,
       <<"U+110F0", "U+110F1", "U+110F2", "U+110F3", "U+110F4",
         "U+110F5", "U+110F6", "U+110F7", "U+110F8", "U+110F9">>,
       <<"U+11136", "U+11137", "U+11138", "U+11139", "U+1113A",
         "U+1113B", "U+1113C", "U+1113D", "U+1113E", "U+1113F">>,
       <<"U+111D0", "U+111D1", "U+111D2", "U+111D3", "U+111D4",
         "U+111D5", "U+111D6", "U+111D7", "U+111D8", "U+111D9">>,
       <<"U+112F0", "U+112F1", "U+112F2", "U+112F3", "U+112F4",
         "U+112F5", "U+112F6", "U+112F7", "U+112F8", "U+112F9">>,
       <<"U+11450", "U+11451", "U+11452", "U+11453", "U+11454",
         "U+11455", "U+11456", "U+11457", "U+11458", "U+11459">>,
       <<"U+114D0", "U+114D1", "U+114D2", "U+114D3", "U+114D4",
         "U+114D5", "U+114D6", "U+114D7", "U+114D8", "U+114D9">>,
       <<"U+11650", "U+11651", "U+11652", "U+11653", "U+11654",
         "U+11655", "U+11656", "U+11657", "U+11658", "U+11659">>,
       <<"U+116C0", "U+116C1", "U+116C2", "U+116C3", "U+116C4",
         "U+116C5", "U+116C6", "U+116C7", "U+116C8", "U+116C9">>,
       <<"U+11730", "U+11731", "U+11732", "U+11733", "U+11734",
         "U+11735", "U+11736", "U+11737", "U+11738", "U+11739">>,
       <<"U+118E0", "U+118E1", "U+118E2", "U+118E3", "U+118E4",
         "U+118E5", "U+118E6", "U+118E7", "U+118E8", "U+118E9">>,
       <<"U+11950", "U+11951", "U+11952", "U+11953", "U+11954",
         "U+11955", "U+11956", "U+11957", "U+11958", "U+11959">>,
       <<"U+11C50", "U+11C51", "U+11C52", "U+11C53", "U+11C54",
         "U+11C55", "U+11C56", "U+11C57", "U+11C58", "U+11C59">>,
       <<"U+11D50", "U+11D51", "U+11D52", "U+11D53", "U+11D54",
         "U+11D55", "U+11D56", "U+11D57", "U+11D58", "U+11D59">>,
       <<"U+11DA0", "U+11DA1", "U+11DA2", "U+11DA3", "U+11DA4",
         "U+11DA5", "U+11DA6", "U+11DA7", "U+11DA8", "U+11DA9">>,
       <<"U+16A60", "U+16A61", "U+16A62", "U+16A63", "U+16A64",
         "U+16A65", "U+16A66", "U+16A67", "U+16A68", "U+16A69">>,
       <<"U+16AC0", "U+16AC1", "U+16AC2", "U+16AC3", "U+16AC4",
         "U+16AC5", "U+16AC6", "U+16AC7", "U+16AC8", "U+16AC9">>,
       <<"U+16B50", "U+16B51", "U+16B52", "U+16B53", "U+16B54",
         "U+16B55", "U+16B56", "U+16B57", "U+16B58", "U+16B59">>,
       <<"U+1D7CE", "U+1D7CF", "U+1D7D0", "U+1D7D1", "U+1D7D2",
         "U+1D7D3", "U+1D7D4", "U+1D7D5", "U+1D7D6", "U+1D7D7">>,
       <<"U+1D7D8", "U+1D7D9", "U+1D7DA", "U+1D7DB", "U+1D7DC",
         "U+1D7DD", "U+1D7DE", "U+1D7DF", "U+1D7E0", "U+1D7E1">>,
       <<"U+1D7E2", "U+1D7E3", "U+1D7E4", "U+1D7E5", "U+1D7E6",
         "U+1D7E7", "U+1D7E8", "U+1D7E9", "U+1D7EA", "U+1D7EB">>,
       <<"U+1D7EC", "U+1D7ED", "U+1D7EE", "U+1D7EF", "U+1D7F0",
         "U+1D7F1", "U+1D7F2", "U+1D7F3", "U+1D7F4", "U+1D7F5">>,
       <<"U+1D7F6", "U+1D7F7", "U+1D7F8", "U+1D7F9", "U+1D7FA",
         "U+1D7FB", "U+1D7FC", "U+1D7FD", "U+1D7FE", "U+1D7FF">>,
       <<"U+1E140", "U+1E141", "U+1E142", "U+1E143", "U+1E144",
         "U+1E145", "U+1E146", "U+1E147", "U+1E148", "U+1E149">>,
       <<"U+1E2F0", "U+1E2F1", "U+1E2F2", "U+1E2F3", "U+1E2F4",
         "U+1E2F5", "U+1E2F6", "U+1E2F7", "U+1E2F8", "U+1E2F9">>,
       <<"U+1E950", "U+1E951", "U+1E952", "U+1E953", "U+1E954",
         "U+1E955", "U+1E956", "U+1E957", "U+1E958", "U+1E959">>,
       <<"U+1FBF0", "U+1FBF1", "U+1FBF2", "U+1FBF3", "U+1FBF4",
         "U+1FBF5", "U+1FBF6", "U+1FBF7", "U+1FBF8", "U+1FBF9">>
    >>

UnicodeDigits ==
    {UnicodeDigitRuns[r][k] : r \in 1..Len(UnicodeDigitRuns), k \in 1..10}

\* The regex class \d of a str pattern.
Digits == AsciiDigits \cup UnicodeDigits

\* The blanks int() skips around its digits: tab, line feed, vertical tab,
\* form feed, carriage return, space, next line, the no-break space and the
\* Unicode spaces and line separators.
IntWS ==
    {"\t", "\n", "U+000B", "\f", "\r", " ", "U+0085", "U+00A0", "U+1680",
     "U+2000", "U+2001", "U+2002", "U+2003", "U+2004", "U+2005", "U+2006",
     "U+2007", "U+2008", "U+2009", "U+200A", "U+2028", "U+2029", "U+202F",
     "U+205F", "U+3000"}

\* Characters str.strip() removes and the regex class \s matches: the blanks
\* above and the separators U+001C..U+001F.
WS == IntWS \cup {"U+001C", "U+001D", "U+001E", "U+001F"}

\* The regex class [-\d.] of the temperature group.
TempChars == Digits \cup {"-", "."}

\* The decimal value of a digit.
DigitVal(c) ==
    CASE c = "0" -> 0 [] c = "1" -> 1 [] c = "2" -> 2 [] c = "3" -> 3
      [] c = "4" -> 4 [] c = "5" -> 5 [] c = "6" -> 6 [] c = "7" -> 7
      [] c = "8" -> 8 [] c = "9" -> 9
      [] c \in UnicodeDigits ->
            LET r == CHOOSE r \in 1..Len(UnicodeDigitRuns) :
                         \E k \in 1..10 : UnicodeDigitRuns[r][k] = c
            IN  (CHOOSE k \in 1..10 : UnicodeDigitRuns[r][k] = c) - 1

\* First index >= i of s whose character is outside class (Len(s)+1 if none):
\* the end of a greedy  class*  match starting at i.
SpanEnd(s, i, class) ==
    IF i > Len(s) \/ s[i] \notin class THEN i
    ELSE CHOOSE k \in (i + 1)..(Len(s) + 1) :
             /\ k > Len(s) \/ s[k] \notin class
             /\ \A j \in i..(k - 1) : s[j] \in class

\* Last index <= i of s whose character is outside class (0 if none).
SpanStart(s, i, class) ==
    IF i < 1 \/ s[i] \notin class THEN i
    ELSE CHOOSE k \in 0..(i - 1) :
             /\ k < 1 \/ s[k] \notin class
             /\ \A j \in (k + 1)..i : s[j] \in class

\* s without its leading and trailing characters of class.
StripOf(s, class) ==
    LET a == SpanEnd(s, 1, class)
        b == SpanStart(s, Len(s), class)
    IN  IF a > b THEN <<>> ELSE SubSeq(s, a, b)

\* line.strip()
Strip(s) == StripOf(s, WS)

\* The literal lit occurs in s at index i.
HasLit(s, i, lit) ==
    /\ i >= 1
    /\ i + Len(lit) - 1 <= Len(s)
    /\ \A k \in 1..Len(lit) : s[i + k - 1] = lit[k]

AllIn(s, class) == \A k \in 1..Len(s) : s[k] \in class

\* The most digits int() converts (sys.int_info.default_max_str_digits).
default_max_str_digits == 4300

\* int() of a string of decimal digits succeeds: a longer string raises
\* ValueError.
IntOk(ds) == Len(ds) <= default_max_str_digits

RECURSIVE ToInt(_)
\* int() of a string of decimal digits, when it succeeds.
ToInt(ds) ==
    IF ds = <<>> THEN 0
    ELSE ToInt(SubSeq(ds, 1, Len(ds) - 1)) * 10 + DigitVal(ds[Len(ds)])

(***************************************************************************)
(* Exact fractions standing for Python floats                              *)
(***************************************************************************)
Abs(x) == IF x < 0 THEN -x ELSE x

RECURSIVE GCD(_, _)
GCD(a, b) == IF b = 0 THEN a ELSE GCD(b, a % b)

\* The fraction n/d in lowest terms with a positive denominator.
Rat(n, d) ==
    LET s == IF d < 0 THEN -1 ELSE 1
        g == GCD(Abs(n), Abs(d))
    IN  [n |-> (s * n) \div g, d |-> (s * d) \div g]

RatAdd(x, y) == Rat(x.n * y.d + y.n * x.d, x.d * y.d)
RatDivInt(x, k) == Rat(x.n, x.d * k)
RatLess(x, y) == x.n * y.d < y.n * x.d
Zero == Rat(0, 1)

RECURSIVE Pow10(_)
Pow10(k) == IF k = 0 THEN 1 ELSE 10 * Pow10(k - 1)

RECURSIVE Without(_, _)
\* s with every occurrence of the character c removed.
Without(s, c) ==
    IF s = <<>> THEN <<>>
    ELSE IF s[1] = c THEN Without(Tail(s), c)
    ELSE <<s[1]>> \o Without(Tail(s), c)

\* float(tok) succeeds, for a token of the class [-\d.]+ : an optional
\* leading minus, at most one point and at least one digit.
FloatOk(tok) ==
    LET body == IF tok # <<>> /\ tok[1] = "-" THEN Tail(tok) ELSE tok
    IN  /\ \A k \in 1..Len(body) : body[k] # "-"
        /\ Cardinality({k \in 1..Len(body) : body[k] = "."}) <= 1
        /\ \E k \in 1..Len(body) : body[k] \in Digits

\* float(tok) when it succeeds.
FloatOf(tok) ==
    LET neg  == tok[1] = "-"
        body == IF neg THEN Tail(tok) ELSE tok
        dot  == SpanEnd(body, 1, Digits)
        frac == IF dot > Len(body) THEN 0 ELSE Len(body) - dot
        mag  == ToInt(Without(body, "."))
    IN  Rat(IF neg THEN -mag ELSE mag, Pow10(frac))

(***************************************************************************)
(* dict as an association list <<key, value>> in insertion order           *)
(***************************************************************************)
Keys(d) == {d[k][1] : k \in 1..Len(d)}
Has(d, key) == \E k \in 1..Len(d) : d[k][1] = key
Get(d, key) == d[CHOOSE k \in 1..Len(d) : d[k][1] = key][2]

\* d[key] = val : a new key is appended, a present key keeps its place.
DictSet(d, key, val) ==
    IF Has(d, key)
    THEN [k \in 1..Len(d) |-> IF d[k][1] = key THEN <<key, val>> ELSE d[k]]
    ELSE Append(d, <<key, val>>)

(***************************************************************************)
(* parse_data_file: the two regular expressions                            *)
(***************************************************************************)
LitHashes == <<"#", "#", "#", "#", "#">>
LitChnl == <<"c", "h", "n", "l">>
LitValid == <<"v", "a", "l", "i", "d">>
LitTemp == <<"t", "e", "m", "p">>
LitComma == <<",">>

\* current_title = None
NoTitle == <<>>

\* The default title of a block that no delimiter opened.
Unknown == <<"U", "n", "k", "n", "o", "w", "n">>

\* re.match(r'^#####(\d+)#####$', line): group 1, or NoTitle when the line
\* does not match (group 1 is never empty).
MatchSeparator(line) ==
    LET n == Len(line)
    IN  IF /\ n >= 11
           /\ HasLit(line, 1, LitHashes)
           /\ HasLit(line, n - 4, LitHashes)
           /\ AllIn(SubSeq(line, 6, n - 5), Digits)
        THEN SubSeq(line, 6, n - 5)
        ELSE NoTitle

NoMatch == [ok |-> FALSE, chnl |-> <<>>, valid |-> <<>>, temp |-> <<>>]

\* re.match(r'chnl\s+(\d+),\s+valid\s+(\d+),\s+temp\s+([-\d.]+)', line):
\* anchored at the start of the line only, every + greedy.
MatchData(line) ==
    LET c1 == 1 + Len(LitChnl)
        c2 == SpanEnd(line, c1, WS)
        c3 == SpanEnd(line, c2, Digits)
        v1 == SpanEnd(line, c3 + 1, WS)
        v2 == v1 + Len(LitValid)
        v3 == SpanEnd(line, v2, WS)
        v4 == SpanEnd(line, v3, Digits)
        t1 == SpanEnd(line, v4 + 1, WS)
        t2 == t1 + Len(LitTemp)
        t3 == SpanEnd(line, t2, WS)
        t4 == SpanEnd(line, t3, TempChars)
    IN  IF /\ HasLit(line, 1, LitChnl)
           /\ c2 > c1 /\ c3 > c2
           /\ HasLit(line, c3, LitComma)
           /\ v1 > c3 + 1
           /\ HasLit(line, v1, LitValid)
           /\ v3 > v2 /\ v4 > v3
           /\ HasLit(line, v4, LitComma)
           /\ t1 > v4 + 1
           /\ HasLit(line, t1, LitTemp)
           /\ t3 > t2 /\ t4 > t3
        THEN [ok |-> TRUE,
              chnl |-> SubSeq(line, c2, c3 - 1),
              valid |-> SubSeq(line, v3, v4 - 1),
              temp |-> SubSeq(line, t3, t4 - 1)]
        ELSE NoMatch

\* current_title if current_title else "Unknown"
TitleOrUnknown(title) == IF title # NoTitle THEN title ELSE Unknown

\* if current_block: blocks.append(current_block)
EmitBlock(bs, cur) == IF cur # <<>> THEN Append(bs, cur) ELSE bs

\* Mutant of EmitTitle: the title is appended without the default.
EmitTitleNoDefault(ts, cur, title) ==
    IF cur # <<>> THEN Append(ts, title) ELSE ts

\* if current_block: block_titles.append(current_title or "Unknown")
EmitTitle(ts, cur, title) ==
    IF cur # <<>> THEN Append(ts, TitleOrUnknown(title)) ELSE ts

\* Mutant of StoreReading: the validity field is not looked at.
StoreReadingAnyValidity(cur, chnl, valid, temp) == DictSet(cur, chnl, temp)

\* if valid == 1: current_block[chnl] = temp
StoreReading(cur, chnl, valid, temp) ==
    IF valid = 1 THEN DictSet(cur, chnl, temp) ELSE cur

(***************************************************************************)
(* The lines a log file is made of                                         *)
(***************************************************************************)
Sp == <<" ">>
SepLine(t) == LitHashes \o t \o LitHashes
DataLine(c, v, t) ==
    LitChnl \o Sp \o c \o LitComma \o Sp \o LitValid \o Sp \o v
            \o LitComma \o Sp \o LitTemp \o Sp \o t

\* A field of one digit more than int() converts.
LongField == [k \in 1..(default_max_str_digits + 1) |-> "7"]

LogLines ==
    { SepLine(<<"1">>),
      Sp \o SepLine(<<"2", "0">>) \o <<" ", "\t">>,
      SepLine(<<"x">>),
      <<"U+3000">> \o SepLine(<<"U+0E53">>) \o <<"\n">>,
      LitChnl \o <<"U+2003">> \o <<"U+0661">> \o LitComma \o Sp \o LitValid
              \o Sp \o <<"1">> \o LitComma \o <<"U+000B">> \o LitTemp \o Sp
              \o <<"-", "U+FF16">>,
      <<>>,
      DataLine(<<"1">>, <<"1">>, <<"5">>),
      DataLine(<<"1">>, <<"1">>, <<"-", "3">>),
      DataLine(<<"2">>, <<"1">>, <<"2", ".", "5">>),
      DataLine(<<"2">>, <<" ", "0", "1">>, <<"9">>) \o <<" ", "C">>,
      DataLine(<<"1">>, <<"0">>, <<"7">>),
      DataLine(<<"2">>, <<"1", "0">>, <<".", "5">>),
      DataLine(<<"1">>, <<"1">>, <<"-">>),
      DataLine(LongField, <<"1">>, <<"5">>),
      DataLine(<<"2">>, <<"0">>, <<"1", ".", "2", ".", "3">>) }

(***************************************************************************)
(* read_template_mapping                                                   *)
(***************************************************************************)
\* A template cell: empty, a number, or text.
NoneCell == [kind |-> "none", n |-> 0, s |-> <<>>]
IntCell(n) == [kind |-> "int", n |-> n, s |-> <<>>]
StrCell(s) == [kind |-> "str", n |-> 0, s |-> s]

\* int(text) succeeds: surrounding blanks, an optional sign, then at most
\* default_max_str_digits digits with single underscores between them.
IntStrOk(s) ==
    LET t == StripOf(s, IntWS)
        body == IF t # <<>> /\ t[1] \in {"+", "-"} THEN Tail(t) ELSE t
    IN  /\ body # <<>>
        /\ AllIn(body, Digits \cup {"_"})
        /\ body[1] # "_" /\ body[Len(body)] # "_"
        /\ \A k \in 1..(Len(body) - 1) : ~(body[k] = "_" /\ body[k + 1] = "_")
        /\ Cardinality({k \in 1..Len(body) : body[k] # "_"})
               <= default_max_str_digits

IntOfStr(s) ==
    LET t == Without(StripOf(s, IntWS), "_")
    IN  IF t[1] = "-" THEN -ToInt(Tail(t))
        ELSE IF t[1] = "+" THEN ToInt(Tail(t))
        ELSE ToInt(t)

\* int(cell.value) does not raise ValueError or TypeError.
CellIsInt(cell) ==
    \/ cell.kind = "int"
    \/ cell.kind = "str" /\ IntStrOk(cell.s)

CellInt(cell) == IF cell.kind = "int" THEN cell.n ELSE IntOfStr(cell.s)

Max(a, b) == IF a > b THEN a ELSE b

RECURSIVE ScanTemplate(_, _, _)
\* The double loop over ws.iter_rows(): cell number k (row-major, from 0) of
\* the template t, with acc the mapping, max_row and max_col so far.
ScanTemplate(t, k, acc) ==
    LET cols == Len(t[1])
        row_idx == (k \div cols) + 1
        col_idx == (k % cols) + 1
        cell == t[row_idx][col_idx]
    IN  IF k >= Len(t) * cols THEN acc
        ELSE IF cell.kind # "none" /\ CellIsInt(cell)
        THEN ScanTemplate(t, k + 1,
                 [mapping |-> Append(acc.mapping,
                                     <<<<row_idx, col_idx>>, CellInt(cell)>>),
                  max_row |-> Max(acc.max_row, row_idx),
                  max_col |-> Max(acc.max_col, col_idx)])
        ELSE ScanTemplate(t, k + 1, acc)

read_template_mapping(t) ==
    ScanTemplate(t, 0, [mapping |-> <<>>, max_row |-> 0, max_col |-> 0])

\* The template sheets explored: no integer cell; the 1 x 2 sheet 1 2; a
\* sheet with an empty cell, text int() takes and text it refuses; a column
\* with a repeated channel and a channel no log line carries.
Templates ==
    { << <<NoneCell, StrCell(<<"x">>)>> >>,
      << <<IntCell(1), IntCell(2)>> >>,
      << <<IntCell(1), StrCell(LongField)>>,
         <<StrCell(<<"1", ".", "5">>), StrCell(<<"U+3000", "U+0662", "\n">>)>>,
         <<StrCell(<<"U+001C", "5">>), NoneCell>> >>,
      << <<IntCell(1)>>, <<IntCell(1)>>, <<StrCell(<<"1", "_", "0">>)>> >> }

(***************************************************************************)
(* calculate_average_temps                                                 *)
(***************************************************************************)
RECURSIVE CollectBlock(_, _, _)
\* for chnl, temp in block.items(): chnl_temps[chnl].append(temp)
CollectBlock(chnl_temps, block, k) ==
    IF k > Len(block) THEN chnl_temps
    ELSE LET chnl == block[k][1]
             old == IF Has(chnl_temps, chnl) THEN Get(chnl_temps, chnl)
                    ELSE <<>>
         IN  CollectBlock(DictSet(chnl_temps, chnl, Append(old, block[k][2])),
                          block, k + 1)

RECURSIVE CollectBlocks(_, _, _)
\* for block in blocks: ...
CollectBlocks(chnl_temps, bs, i) ==
    IF i > Len(bs) THEN chnl_temps
    ELSE CollectBlocks(CollectBlock(chnl_temps, bs[i], 1), bs, i + 1)

RECURSIVE RatSum(_)
\* sum(temps)
RatSum(temps) ==
    IF temps = <<>> THEN Zero
    ELSE RatAdd(RatSum(SubSeq(temps, 1, Len(temps) - 1)), temps[Len(temps)])

\* sum(temps) / len(temps)
Mean(temps) == RatDivInt(RatSum(temps), Len(temps))

\* Mutant of calculate_average_temps: the sum is divided by the number of
\* blocks.
calculate_average_temps_all_blocks(bs) ==
    LET chnl_temps == CollectBlocks(<<>>, bs, 1)
    IN  [k \in 1..Len(chnl_temps) |->
            <<chnl_temps[k][1], RatDivInt(RatSum(chnl_temps[k][2]), Len(bs))>>]

calculate_average_temps(bs) ==
    LET chnl_temps == CollectBlocks(<<>>, bs, 1)
    IN  [k \in 1..Len(chnl_temps) |->
            <<chnl_temps[k][1], Mean(chnl_temps[k][2])>>]

(***************************************************************************)
(* The worksheet: cells by <<row, column>>, merged ranges, and the         *)
(* conditional-formatting rules                                            *)
(***************************************************************************)
TitleCell(text) == [k |-> "title", text |-> text, v |-> Zero]
NumCell(v) == [k |-> "num", text |-> <<>>, v |-> v]

\* wb = Workbook(); ws = wb.active
NewSheet == [cells |-> [p \in {} |-> NumCell(Zero)], merged |-> {}, cf |-> <<>>]

\* ws.cell(row, column, value)
SetCell(cells, pos, val) ==
    [p \in (DOMAIN cells) \cup {pos} |-> IF p = pos THEN val ELSE cells[p]]

write_title(sheet, title, row, max_col) ==
    [sheet EXCEPT
        !.cells = SetCell(@, <<row, 1>>, TitleCell(title)),
        !.merged = IF max_col > 1 THEN @ \cup {<<row, 1, row, max_col>>}
                   ELSE @]

AverageTitle == <<"A", "v", "e", "r", "a", "g", "e", " ", "T", "e", "m", "p", "e", "r", "a", "t", "u", "r", "e", " ", "M", "a", "p">>
LitBlock == <<"B", "l", "o", "c", "k", " ">>
LitOpen == <<" ", "(", "#", "#", "#", "#", "#">>
LitClose == <<"#", "#", "#", "#", "#", ")">>

DigitChar(d) == CHOOSE c \in AsciiDigits : DigitVal(c) = d

RECURSIVE IntToStr(_)
\* str(i) of a natural number, as in an f-string.
IntToStr(i) ==
    IF i < 10 THEN <<DigitChar(i)>>
    ELSE IntToStr(i \div 10) \o <<DigitChar(i % 10)>>

\* f"Block {i} (#####{title}#####)"
BlockTitle(i, title) == LitBlock \o IntToStr(i) \o LitOpen \o title \o LitClose

\* Mutant of ExcelRow: the row is one too low.
ExcelRowOffByOne(start_row, template_row) == start_row + template_row

\* excel_row = start_row + template_row - 1
ExcelRow(start_row, template_row) == start_row + template_row - 1

RECURSIVE WriteCells(_, _, _, _, _)
\* The loop of write_block_to_excel over mapping.items(), from entry k on.
WriteCells(cells, block_data, map, start_row, k) ==
    IF k > Len(map) THEN cells
    ELSE LET pos == map[k][1]
             chnl == map[k][2]
             at == <<ExcelRow(start_row, pos[1]), pos[2]>>
         IN  WriteCells(IF Has(block_data, chnl)
                        THEN SetCell(cells, at, NumCell(Get(block_data, chnl)))
                        ELSE cells,
                        block_data, map, start_row, k + 1)

\* Mutant of MaxTemplateRow: the row of the item visited last, which is the
\* largest row only while the items come in the template's scan order.
MaxTemplateRowOfLast(map) == map[Len(map)][1][1]

\* max(row for row, _ in mapping.keys()), of a mapping that is not empty.
MaxTemplateRow(map) ==
    CHOOSE r \in {map[k][1][1] : k \in 1..Len(map)} :
        \A k \in 1..Len(map) : map[k][1][1] <= r

\* Mutant of NextStartRow: the last row of the block is returned.
NextStartRowIsEndRow(start_row, max_template_row) ==
    start_row + max_template_row - 1

\* return start_row + max_template_row + 1
NextStartRow(start_row, max_template_row) == start_row + max_template_row + 1

\* write_block_to_excel on a mapping that is not empty: the sheet and the
\* returned row.
write_block_to_excel(sheet, block_data, map, start_row) ==
    [ws |-> [sheet EXCEPT
                !.cells = WriteCells(@, block_data, map, start_row, 1)],
     ret |-> NextStartRow(start_row, MaxTemplateRow(map))]

RECURSIVE WriteAverage(_, _, _, _, _)
\* The loop of run_pipeline over mapping.items() that writes the average
\* cells and collects each written value: the cells and all_temps.
WriteAverage(acc, avg, map, start_row, k) ==
    IF k > Len(map) THEN acc
    ELSE LET pos == map[k][1]
             chnl == map[k][2]
             at == <<ExcelRow(start_row, pos[1]), pos[2]>>
         IN  WriteAverage(IF Has(avg, chnl)
                          THEN [cells |-> SetCell(acc.cells, at,
                                                  NumCell(Get(avg, chnl))),
                                all_temps |-> Append(acc.all_temps,
                                                     Get(avg, chnl))]
                          ELSE acc,
                          avg, map, start_row, k + 1)

\* for temp in block.values(): all_temps.append(temp)
CollectTemps(temps, block) ==
    temps \o [k \in 1..Len(block) |-> block[k][2]]

RECURSIVE RatMin(_)
RatMin(temps) ==
    IF Len(temps) = 1 THEN temps[1]
    ELSE LET m == RatMin(SubSeq(temps, 1, Len(temps) - 1))
         IN  IF RatLess(temps[Len(temps)], m) THEN temps[Len(temps)] ELSE m

RECURSIVE RatMax(_)
RatMax(temps) ==
    IF Len(temps) = 1 THEN temps[1]
    ELSE LET m == RatMax(SubSeq(temps, 1, Len(temps) - 1))
         IN  IF RatLess(m, temps[Len(temps)]) THEN temps[Len(temps)] ELSE m

\* ws.max_row and ws.max_column: 1 for a sheet without cells, the cells of a
\* merged range counting as cells.
SheetMaxRow(sheet) ==
    LET rows == {p[1] : p \in DOMAIN sheet.cells}
                    \cup {m[3] : m \in sheet.merged} \cup {1}
    IN  CHOOSE r \in rows : \A q \in rows : q <= r

SheetMaxCol(sheet) ==
    LET cols == {p[2] : p \in DOMAIN sheet.cells}
                    \cup {m[4] : m \in sheet.merged} \cup {1}
    IN  CHOOSE c \in cols : \A q \in cols : q <= c

\* apply_color_scale: the three-colour rule over A1:(max_row, max_col).  The
\* cell the code touches to spell the range holds no value and is left out.
apply_color_scale(sheet, min_temp, max_temp) ==
    LET max_row == SheetMaxRow(sheet)
        max_col == SheetMaxCol(sheet)
    IN  IF max_row = 0 \/ max_col = 0 THEN sheet
        ELSE [sheet EXCEPT !.cf = Append(@,
                 [start |-> min_temp,
                  mid |-> RatDivInt(RatAdd(min_temp, max_temp), 2),
                  end |-> max_temp,
                  range |-> <<1, 1, max_row, max_col>>])]

(***************************************************************************)
(* State of one run of run_pipeline                                        *)
(***************************************************************************)
VARIABLES
    pc,                 \* the statement run_pipeline is at
    err,                \* the exception that ended the run, or "none"
    lines,              \* parse_data_file: the lines of the file read so far
    blocks,             \* parse_data_file / run_pipeline: blocks
    block_titles,       \* parse_data_file / run_pipeline: block_titles
    current_block,      \* parse_data_file: current_block
    current_title,      \* parse_data_file: current_title
    mapping,            \* run_pipeline: mapping
    max_template_row,   \* run_pipeline: max_template_row
    max_template_col,   \* run_pipeline: max_template_col
    avg_temps,          \* run_pipeline: avg_temps
    ws,                 \* run_pipeline: ws
    all_temps,          \* run_pipeline: all_temps
    current_row,        \* run_pipeline: current_row
    i,                  \* run_pipeline: the block loop's counter i
    title_rows,         \* the rows write_title has been called with, in order
    saved,              \* wb.save has written result.xlsx
    button,             \* TemperatureGUI: the state of start_button
    threads,            \* the worker threads started and not yet ended
    wpc,                \* the statement the worker started last is at in
                        \* _run_pipeline_in_thread, "none" past its last one
    to_log,             \* the log calls run_pipeline makes before its next step
    posted,             \* the callbacks given to self.after since the last start
    handled,            \* how many of them the main loop has run
    dialog,             \* the message box shown last
    boxes,              \* the message boxes shown and not yet dismissed
    log_text            \* the messages inserted in the log widget since it
                        \* was cleared

vars == <<pc, err, lines, blocks, block_titles, current_block, current_title,
          mapping, max_template_row, max_template_col, avg_temps, ws,
          all_temps, current_row, i, title_rows, saved,
          button, threads, wpc, to_log, posted, handled, dialog, boxes,
          log_text>>

parser_vars == <<lines, blocks, block_titles, current_block, current_title>>
layout_vars == <<mapping, max_template_row, max_template_col>>
sheet_vars == <<ws, all_temps, current_row, i, title_rows>>
gui_vars ==
    <<button, threads, wpc, to_log, posted, handled, dialog, boxes, log_text>>

\* tk.NORMAL and tk.DISABLED
NORMAL == "normal"
DISABLED == "disabled"

\* The window as _build_ui leaves it: the button enabled, no worker thread,
\* no callback pending, an empty log.
NewWindow ==
    /\ button = NORMAL
    /\ threads = 0
    /\ wpc = "none"
    /\ to_log = 0
    /\ posted = <<>>
    /\ handled = 0
    /\ dialog = "none"
    /\ boxes = 0
    /\ log_text = 0

Init ==
    /\ pc = "open"
    /\ err = "none"
    /\ lines = <<>>
    /\ blocks = <<>>
    /\ block_titles = <<>>
    /\ current_block = <<>>
    /\ current_title = NoTitle
    /\ mapping = <<>>
    /\ max_template_row = 0
    /\ max_template_col = 0
    /\ avg_temps = <<>>
    /\ ws = NewSheet
    /\ all_temps = <<>>
    /\ current_row = 0
    /\ i = 0
    /\ title_rows = <<>>
    /\ saved = FALSE
    /\ NewWindow

\* run_pipeline is at the statement `at`, the log calls before it made.
Running(at) == pc = at /\ err = "none" /\ to_log = 0

\* self.after(0, callback), once for each of callbacks.
after(callbacks) == posted' = posted \o callbacks

\* The n calls of run_pipeline's log(msg) that follow a step: where a logger
\* was given, which in the window's worker thread is thread_safe_log, they
\* are made one by one (thread_safe_log below); print(msg) otherwise.
log(n) ==
    /\ to_log' = IF wpc = "run" THEN n ELSE 0
    /\ UNCHANGED <<button, threads, wpc, posted, handled, dialog, boxes,
                   log_text>>

\* The log calls between the end of a section and the next step: the one
\* that opens block next_i, or after the last block the two of the colour
\* scale, which are made when all_temps is not empty.
LoopLogs(next_i, temps) ==
    IF next_i <= Len(blocks) THEN 1
    ELSE IF temps # <<>> THEN 2
    ELSE 0

\* parse_data_file: the data file does not exist.
DataFileMissing ==
    /\ Running("open")
    /\ err' = "FileNotFoundError"
    /\ UNCHANGED <<pc, parser_vars, layout_vars, avg_temps, sheet_vars, saved>>
    /\ log(0)

\* parse_data_file: the file exists and is opened.
OpenDataFile ==
    /\ Running("open")
    /\ pc' = "parse"
    /\ UNCHANGED <<err, parser_vars, layout_vars, avg_temps, sheet_vars, saved>>
    /\ log(0)

\* parse_data_file: one iteration of  for line in f.
ParseLine ==
    /\ Running("parse")
    /\ Len(lines) < MaxLines
    /\ \E raw \in LogLines :
        LET line == Strip(raw)
            sep == MatchSeparator(line)
            m == MatchData(line)
        IN  /\ lines' = Append(lines, raw)
            /\ IF sep # NoTitle
               THEN /\ blocks' = EmitBlock(blocks, current_block)
                    /\ block_titles' =
                           EmitTitle(block_titles, current_block, current_title)
                    /\ current_block' = <<>>
                    /\ current_title' = sep
                    /\ err' = err
               ELSE IF /\ m.ok
                       /\ ~(IntOk(m.chnl) /\ IntOk(m.valid) /\ FloatOk(m.temp))
               THEN /\ err' = "ValueError"
                    /\ UNCHANGED <<blocks, block_titles, current_block,
                                   current_title>>
               ELSE IF m.ok
               THEN /\ current_block' =
                           StoreReading(current_block, ToInt(m.chnl),
                                        ToInt(m.valid), FloatOf(m.temp))
                    /\ UNCHANGED <<blocks, block_titles, current_title, err>>
               ELSE UNCHANGED <<blocks, block_titles, current_block,
                                current_title, err>>
    /\ UNCHANGED <<pc, layout_vars, avg_temps, sheet_vars, saved>>
    /\ log(0)

\* parse_data_file: the end of the file, the last block and the return.
ParseReturn ==
    /\ Running("parse")
    /\ blocks' = EmitBlock(blocks, current_block)
    /\ block_titles' = EmitTitle(block_titles, current_block, current_title)
    /\ pc' = "template"
    /\ UNCHANGED <<err, lines, current_block, current_title, layout_vars,
                   avg_temps, sheet_vars, saved>>
    /\ log(2)

\* read_template_mapping: the template file does not exist.
TemplateMissing ==
    /\ Running("template")
    /\ err' = "FileNotFoundError"
    /\ UNCHANGED <<pc, parser_vars, layout_vars, avg_temps, sheet_vars, saved>>
    /\ log(0)

\* read_template_mapping on a template sheet; the locals of parse_data_file
\* are gone by now.
ReadTemplate ==
    /\ Running("template")
    /\ \E t \in Templates :
        LET r == read_template_mapping(t)
        IN  /\ mapping' = r.mapping
            /\ max_template_row' = r.max_row
            /\ max_template_col' = r.max_col
    /\ lines' = <<>>
    /\ current_block' = <<>>
    /\ current_title' = NoTitle
    /\ pc' = "average"
    /\ UNCHANGED <<err, blocks, block_titles, avg_temps, sheet_vars, saved>>
    /\ log(3)

\* avg_temps = calculate_average_temps(blocks)
CalcAverage ==
    /\ Running("average")
    /\ avg_temps' = calculate_average_temps(blocks)
    /\ pc' = "sheet"
    /\ UNCHANGED <<err, parser_vars, layout_vars, sheet_vars, saved>>
    /\ log(3)

\* The new workbook, the average title, the average cells and the row of
\* the first block.
WriteAverageSection ==
    /\ Running("sheet")
    /\ LET titled == write_title(NewSheet, AverageTitle, 1, max_template_col)
           w == WriteAverage([cells |-> titled.cells, all_temps |-> <<>>],
                             avg_temps, mapping, 2, 1)
       IN  /\ ws' = [titled EXCEPT !.cells = w.cells]
           /\ all_temps' = w.all_temps
           /\ title_rows' = <<1>>
    /\ current_row' = NextStartRow(2, max_template_row)
    /\ i' = 1
    /\ pc' = "blocks"
    /\ UNCHANGED <<err, parser_vars, layout_vars, avg_temps, saved>>
    /\ log(LoopLogs(1, all_temps'))

\* One iteration of the loop over zip(blocks, block_titles): the title, then
\* write_block_to_excel, which raises ValueError on an empty mapping.
WriteBlock ==
    /\ Running("blocks")
    /\ i <= Len(blocks)
    /\ LET block == blocks[i]
           title == BlockTitle(i, block_titles[i])
           titled == write_title(ws, title, current_row, max_template_col)
           data_start_row == current_row + 1
       IN  /\ title_rows' = Append(title_rows, current_row)
           /\ IF mapping = <<>>
              THEN /\ ws' = titled
                   /\ err' = "ValueError"
                   /\ UNCHANGED <<all_temps, current_row, i>>
              ELSE LET r == write_block_to_excel(titled, block, mapping,
                                                 data_start_row)
                   IN  /\ ws' = r.ws
                       /\ all_temps' = CollectTemps(all_temps, block)
                       /\ current_row' = r.ret + 1
                       /\ i' = i + 1
                       /\ err' = err
    /\ UNCHANGED <<pc, parser_vars, layout_vars, avg_temps, saved>>
    /\ log(IF err' # "none" THEN 0 ELSE LoopLogs(i', all_temps'))

\* if all_temps: apply_color_scale(ws, min(all_temps), max(all_temps))
ApplyColorScale ==
    /\ Running("blocks")
    /\ i > Len(blocks)
    /\ ws' = IF all_temps # <<>>
             THEN apply_color_scale(ws, RatMin(all_temps), RatMax(all_temps))
             ELSE ws
    /\ pc' = "save"
    /\ UNCHANGED <<err, parser_vars, layout_vars, avg_temps, all_temps, current_row, i,
                   title_rows, saved>>
    /\ log(1)

\* wb.save(output_file); return output_file
Save ==
    /\ Running("save")
    /\ saved' = TRUE
    /\ pc' = "done"
    /\ UNCHANGED <<err, parser_vars, layout_vars, avg_temps, sheet_vars>>
    /\ log(1)

Next ==
    \/ DataFileMissing
    \/ OpenDataFile
    \/ ParseLine
    \/ ParseReturn
    \/ TemplateMissing
    \/ ReadTemplate
    \/ CalcAverage
    \/ WriteAverageSection
    \/ WriteBlock
    \/ ApplyColorScale
    \/ Save

Spec == Init /\ [][Next]_vars

(***************************************************************************)
(* The log as the claims read it: delimiters, runs and valid readings      *)
(***************************************************************************)
IsSep(raw) == MatchSeparator(Strip(raw)) # NoTitle

\* The groups of a data line.
Reading(raw) == MatchData(Strip(raw))

\* The line has the shape of a data line.
IsData(raw) == ~IsSep(raw) /\ Reading(raw).ok

\* A data line whose fields int() and float() convert.
WellFormedData(raw) ==
    LET m == Reading(raw)
    IN  /\ ~IsSep(raw)
        /\ m.ok
        /\ IntOk(m.chnl)
        /\ IntOk(m.valid)
        /\ FloatOk(m.temp)

\* A well-formed data line whose validity field is 1.
IsValidReading(raw) == WellFormedData(raw) /\ ToInt(Reading(raw).valid) = 1

\* The channel and the temperature of a well-formed data line.
ChnlOf(raw) == ToInt(Reading(raw).chnl)
TempOf(raw) == FloatOf(Reading(raw).temp)

InParser == pc \in {"parse", "template"}

\* The run a line belongs to: the number of delimiters up to it (run 0 is
\* the lines before any delimiter).
RunOf(k) == Cardinality({j \in 1..k : IsSep(lines[j])})
CurrentRun == RunOf(Len(lines))
ValidIdx == {k \in 1..Len(lines) : IsValidReading(lines[k])}
NonEmptyRuns == {RunOf(k) : k \in ValidIdx}

\* The runs that have ended: all of them once parse_data_file has returned.
ClosedRuns ==
    IF pc = "parse" THEN {r \in NonEmptyRuns : r < CurrentRun}
    ELSE NonEmptyRuns

\* The place of run r among the runs that hold a valid reading.
Rank(r) == Cardinality({q \in NonEmptyRuns : q < r}) + 1

\* parse_data_file is over: it has returned or it has raised.
ParseOver == pc = "template" \/ (pc = "parse" /\ err = "ValueError")

\* What parse_data_file hands to its caller: its blocks when it returns,
\* nothing when it raises.
Emitted == IF pc = "parse" THEN <<>> ELSE blocks

\* C2 as stated: for every sequence of log lines, parse_data_file emits
\* exactly one block per maximal run of lines that holds at least one valid
\* reading, and no emitted block is empty.
C2_OneBlockPerNonEmptyRun ==
    ParseOver =>
        /\ Len(Emitted) = Cardinality(NonEmptyRuns)
        /\ \A b \in 1..Len(Emitted) : Emitted[b] # <<>>

\* C3 as stated: a line that is neither a delimiter nor a well-formed data
\* line is skipped without an error and changes neither the open block nor
\* the emitted blocks.
C3_MalformedLineSkipped ==
    [][(pc = "parse" /\ Len(lines') = Len(lines) + 1
           /\ ~IsSep(lines'[Len(lines')])
           /\ ~WellFormedData(lines'[Len(lines')]))
        => (err' = "none"
              /\ UNCHANGED <<blocks, block_titles, current_block,
                             current_title>>)]_vars

\* The valid readings of channel c in run r, by line number.
ValidFor(r, c) ==
    {k \in ValidIdx : RunOf(k) = r /\ ChnlOf(lines[k]) = c}

LastOf(S) == CHOOSE k \in S : \A j \in S : j <= k

\* Every entry of the block comes from a valid reading of run r and holds
\* the temperature of the last valid reading of its channel in that run.
HoldsLastValid(block, r) ==
    \A c \in Keys(block) :
        /\ ValidFor(r, c) # {}
        /\ Get(block, c) = TempOf(lines[LastOf(ValidFor(r, c))])

\* C8: a block maps a channel to a temperature only if a data line of that
\* channel with validity 1 occurred in the block's run, and the temperature
\* stored is that of the last such line; a data line whose validity is not 1
\* adds and changes nothing.  It holds of the emitted blocks and of the open
\* block.
C8_LastValidReadingStored ==
    InParser =>
        /\ \A b \in 1..Len(blocks) :
              \E r \in ClosedRuns : Rank(r) = b /\ HoldsLastValid(blocks[b], r)
        /\ pc = "parse" => HoldsLastValid(current_block, CurrentRun)

\* A parsed log in which one run holds two valid readings of a channel with
\* different temperatures followed by a reading of it that is not valid.
C8_Witness ==
    /\ Running("template")
    /\ Len(blocks) >= 1
    /\ \E j, k, l \in 1..Len(lines) :
          /\ j < k /\ k < l
          /\ RunOf(j) = RunOf(l)
          /\ IsValidReading(lines[j]) /\ IsValidReading(lines[k])
          /\ ChnlOf(lines[j]) = ChnlOf(lines[k])
          /\ TempOf(lines[j]) # TempOf(lines[k])
          /\ WellFormedData(lines[l]) /\ ~IsValidReading(lines[l])
          /\ ChnlOf(lines[l]) = ChnlOf(lines[k])

\* The digit token of the delimiter that opens run r, the sentinel for
\* run 0.
TitleOfRun(r, sentinel) ==
    IF r = 0 THEN sentinel
    ELSE MatchSeparator(Strip(
             lines[CHOOSE k \in 1..Len(lines) : IsSep(lines[k]) /\ RunOf(k) = r]))

(***************************************************************************)
(* The sheet as the claims read it                                         *)
(***************************************************************************)
TemplateRead == pc \in {"average", "sheet", "blocks", "save", "done"}
Composing == pc \in {"blocks", "save", "done"}

\* Section 1 of title_rows is the average section, section b + 1 is block b.
SectionData(k) == IF k = 1 THEN avg_temps ELSE blocks[k - 1]

HasCell(at) == at \in DOMAIN ws.cells
NumCells == {p \in DOMAIN ws.cells : ws.cells[p].k = "num"}

\* Blocks and titles are emitted in log order and in step: the two lists
\* have equal length, the b-th block's title is the digit token of the
\* delimiter that opened its run (the sentinel for the run before any
\* delimiter), and the b-th block is written as the section titled
\* "Block b (#####title#####)", below the sections written before it.
TitlesFollowLogOrder(sentinel) ==
    /\ Len(blocks) = Len(block_titles)
    /\ InParser =>
          \A b \in 1..Len(block_titles) :
              \E r \in ClosedRuns :
                  Rank(r) = b /\ block_titles[b] = TitleOfRun(r, sentinel)
    /\ Composing =>
          /\ Len(title_rows) <= Len(blocks) + 1
          /\ \A k \in 2..Len(title_rows) :
                /\ title_rows[k - 1] < title_rows[k]
                /\ HasCell(<<title_rows[k], 1>>)
                /\ ws.cells[<<title_rows[k], 1>>] =
                       TitleCell(LitBlock \o IntToStr(k - 1) \o LitOpen
                                     \o block_titles[k - 1] \o LitClose)
    /\ pc \in {"save", "done"} => Len(title_rows) = Len(blocks) + 1

\* C9 as stated: blocks and titles are emitted in log order, one title per
\* block, the title being the delimiter's digit token or the sentinel
\* "unknown", and the k-th block is written as section "Block k" with that
\* title.
C9_TitlesWithSentinelLowercase ==
    TitlesFollowLogOrder(<<"u", "n", "k", "n", "o", "w", "n">>)

\* C9, amended: the same with the sentinel "Unknown", as the code spells it.
C9_TitlesFollowLogOrder == TitlesFollowLogOrder(Unknown)

\* A finished run over two blocks, the first read before any delimiter and
\* the second opened by the delimiter #####20#####.
C9_Witness ==
    /\ Running("done")
    /\ block_titles = <<Unknown, <<"2", "0">>>>
    /\ Len(title_rows) = 3

\* C1 as stated: the average section's title is in row 1 and, from the second
\* block on, a section's title row is the title row of the section before it
\* plus max_row + 2.
C1_TitleRowStride ==
    /\ title_rows # <<>> => title_rows[1] = 1
    /\ \A k \in 3..Len(title_rows) :
          title_rows[k] = title_rows[k - 1] + max_template_row + 2

\* C4 as stated: with a template without integer cells the run does not
\* fail, and it ends with one title per section and no data cell.
C4_EmptyTemplateCompletes ==
    (TemplateRead /\ mapping = <<>>) =>
        /\ err = "none"
        /\ pc = "done" =>
              (Len(title_rows) = Len(blocks) + 1 /\ NumCells = {})

\* C5 as stated: the colour scale runs from the least to the greatest of the
\* numbers written into the sheet, with their mean in the middle.
C5_ColorScaleOverWrittenValues ==
    ws.cf # <<>> =>
        LET written == {ws.cells[p].v : p \in NumCells}
            rule == ws.cf[1]
        IN  /\ rule.start \in written
            /\ rule.end \in written
            /\ \A v \in written : ~RatLess(v, rule.start) /\ ~RatLess(rule.end, v)
            /\ rule.mid.n * 2 * (rule.start.d * rule.end.d) =
                   rule.mid.d * (rule.start.n * rule.end.d
                                     + rule.end.n * rule.start.d)

\* The blocks that hold channel c.
BlocksWith(c) == {b \in 1..Len(blocks) : Has(blocks[b], c)}

RECURSIVE SumOver(_, _)
\* The sum of channel c's temperatures over the blocks of S.
SumOver(c, S) ==
    IF S = {} THEN Zero
    ELSE LET b == CHOOSE x \in S : TRUE
         IN  RatAdd(Get(blocks[b], c), SumOver(c, S \ {b}))

\* C6: the average map has exactly the channels that occur in some block,
\* once each, and the value of channel c is the sum of c's temperatures over
\* the blocks holding c divided by the number of those blocks; without
\* blocks the map is empty.
C6_AverageOverBlocksHoldingChannel ==
    pc \in {"sheet", "blocks", "save", "done"} =>
        /\ Keys(avg_temps) = UNION {Keys(blocks[b]) : b \in 1..Len(blocks)}
        /\ Len(avg_temps) = Cardinality(Keys(avg_temps))
        /\ \A c \in Keys(avg_temps) :
              LET sum == SumOver(c, BlocksWith(c))
                  avg == Get(avg_temps, c)
              IN  avg.n * sum.d * Cardinality(BlocksWith(c)) = sum.n * avg.d
        /\ blocks = <<>> => avg_temps = <<>>

\* The averages of two blocks, one channel in both with different
\* temperatures or a channel that only one of them holds.
C6_Witness ==
    /\ Running("sheet")
    /\ Len(blocks) = 2
    /\ \E c \in Keys(avg_temps) :
          \/ Cardinality(BlocksWith(c)) = 1
          \/ /\ Cardinality(BlocksWith(c)) = 2
             /\ Get(blocks[1], c) # Get(blocks[2], c)

\* C7: in every section written, the cell of a mapped position holds a number
\* exactly when the section's data has the position's channel, and then that
\* channel's value; otherwise the cell does not exist.
C7_CellIffChannelPresent ==
    Composing =>
        \A k \in 1..Len(title_rows) : \A m \in 1..Len(mapping) :
            LET pos == mapping[m][1]
                chnl == mapping[m][2]
                at == <<title_rows[k] + 1 + pos[1] - 1, pos[2]>>
            IN  IF Has(SectionData(k), chnl)
                THEN HasCell(at)
                         /\ ws.cells[at] = NumCell(Get(SectionData(k), chnl))
                ELSE ~HasCell(at)

\* A finished run whose second block lacks a mapped channel that the first
\* block and the average have.
C7_Witness ==
    /\ Running("done")
    /\ Len(blocks) = 2
    /\ \E m \in 1..Len(mapping) :
          /\ Has(blocks[1], mapping[m][2])
          /\ ~Has(blocks[2], mapping[m][2])
          /\ HasCell(<<title_rows[2] + mapping[m][1][1], mapping[m][1][2]>>)
          /\ ~HasCell(<<title_rows[3] + mapping[m][1][1], mapping[m][1][2]>>)

\* C10: sections do not overlap.  A section takes its title row and the
\* max_row rows under it; the next section's title row lies below them with
\* at least one row between that holds no cell, and every cell of the sheet
\* lies in the rows of one section, a title in its first row and column 1.
C10_SectionsDoNotOverlap ==
    Composing =>
        /\ \A k \in 2..Len(title_rows) :
              /\ title_rows[k - 1] + max_template_row + 1 < title_rows[k]
              /\ \A p \in DOMAIN ws.cells :
                    p[1] # title_rows[k - 1] + max_template_row + 1
        /\ \A p \in DOMAIN ws.cells :
              \E k \in 1..Len(title_rows) :
                 IF ws.cells[p].k = "title"
                 THEN p = <<title_rows[k], 1>>
                 ELSE /\ title_rows[k] < p[1]
                      /\ p[1] <= title_rows[k] + max_template_row

\* A finished sheet of three sections of two rows each, with a number in the
\* last row of the first block's section.
C10_Witness ==
    /\ Running("done")
    /\ Len(title_rows) = 3
    /\ max_template_row = 2
    /\ \E p \in NumCells : p[1] = title_rows[2] + max_template_row

(***************************************************************************)
(* Missing input files                                                     *)
(***************************************************************************)
\* No processing step of run_pipeline has run: the log has not been opened,
\* nothing is parsed, mapped, averaged or written.
NothingProcessed ==
    /\ pc = "open"
    /\ lines = <<>> /\ blocks = <<>> /\ block_titles = <<>>
    /\ mapping = <<>>
    /\ avg_temps = <<>>
    /\ ws = NewSheet /\ title_rows = <<>>

\* C11: whenever run_pipeline has failed with the missing-file error, no
\* processing step has run (no log parsing, no template mapping, no
\* aggregation, no grid writing) and the output file has not been saved,
\* whether the log or the template is the absent file.
C11_MissingFileBeforeProcessing ==
    err = "FileNotFoundError" => NothingProcessed /\ ~saved

(***************************************************************************)
(* The pipeline under any iteration order of its maps                      *)
(***************************************************************************)
\* The orders in which the items of a map can be visited.
Perms(n) ==
    {p \in [1..n -> 1..n] : \A a, b \in 1..n : p[a] = p[b] => a = b}

AnyOrder(d) == {[k \in 1..Len(d) |-> d[p[k]]] : p \in Perms(Len(d))}

\* blocks, the items of each block in any order.
AnyOrderEach(bs) ==
    {b \in [1..Len(bs) -> UNION {AnyOrder(bs[k]) : k \in 1..Len(bs)}] :
        \A k \in 1..Len(bs) : b[k] \in AnyOrder(bs[k])}

\* CalcAverage, block.items() and channel_temps.items() in any order.
CalcAverageAnyOrder ==
    /\ Running("average")
    /\ \E bs \in AnyOrderEach(blocks) :
        avg_temps' \in AnyOrder(calculate_average_temps(bs))
    /\ pc' = "sheet"
    /\ UNCHANGED <<err, parser_vars, layout_vars, sheet_vars, saved>>
    /\ log(3)

\* WriteAverageSection, mapping.items() in any order.
WriteAverageSectionAnyOrder ==
    /\ Running("sheet")
    /\ \E map \in AnyOrder(mapping) :
        LET titled == write_title(NewSheet, AverageTitle, 1, max_template_col)
            w == WriteAverage([cells |-> titled.cells, all_temps |-> <<>>],
                              avg_temps, map, 2, 1)
        IN  /\ ws' = [titled EXCEPT !.cells = w.cells]
            /\ all_temps' = w.all_temps
            /\ title_rows' = <<1>>
    /\ current_row' = NextStartRow(2, max_template_row)
    /\ i' = 1
    /\ pc' = "blocks"
    /\ UNCHANGED <<err, parser_vars, layout_vars, avg_temps, saved>>
    /\ log(LoopLogs(1, all_temps'))

\* WriteBlock, mapping.items() and block.values() in any order.
WriteBlockAnyOrder ==
    /\ Running("blocks")
    /\ i <= Len(blocks)
    /\ LET title == BlockTitle(i, block_titles[i])
           titled == write_title(ws, title, current_row, max_template_col)
           data_start_row == current_row + 1
       IN  /\ title_rows' = Append(title_rows, current_row)
           /\ IF mapping = <<>>
              THEN /\ ws' = titled
                   /\ err' = "ValueError"
                   /\ UNCHANGED <<all_temps, current_row, i>>
              ELSE \E map \in AnyOrder(mapping), block \in AnyOrder(blocks[i]) :
                   LET r == write_block_to_excel(titled, block, map,
                                                 data_start_row)
                   IN  /\ ws' = r.ws
                       /\ all_temps' = CollectTemps(all_temps, block)
                       /\ current_row' = r.ret + 1
                       /\ i' = i + 1
                       /\ err' = err
    /\ UNCHANGED <<pc, parser_vars, layout_vars, avg_temps, saved>>
    /\ log(IF err' # "none" THEN 0 ELSE LoopLogs(i', all_temps'))

NextAnyOrder ==
    \/ DataFileMissing
    \/ OpenDataFile
    \/ ParseLine
    \/ ParseReturn
    \/ TemplateMissing
    \/ ReadTemplate
    \/ CalcAverageAnyOrder
    \/ WriteAverageSectionAnyOrder
    \/ WriteBlockAnyOrder
    \/ ApplyColorScale
    \/ Save

SpecAnyOrder == Init /\ [][NextAnyOrder]_vars

RECURSIVE GridAfter(_)
\* run_pipeline from the averages to the end of block k as a function of
\* blocks, block_titles and the template mapping, every map visited in
\* insertion order: the sheet, all_temps and current_row.
GridAfter(k) ==
    IF k = 0
    THEN LET avg == calculate_average_temps(blocks)
             titled == write_title(NewSheet, AverageTitle, 1,
                                   max_template_col)
             w == WriteAverage([cells |-> titled.cells, all_temps |-> <<>>],
                               avg, mapping, 2, 1)
         IN  [ws |-> [titled EXCEPT !.cells = w.cells],
              all_temps |-> w.all_temps,
              current_row |-> NextStartRow(2, max_template_row)]
    ELSE LET g == GridAfter(k - 1)
             titled == write_title(g.ws, BlockTitle(k, block_titles[k]),
                                   g.current_row, max_template_col)
             r == write_block_to_excel(titled, blocks[k], mapping,
                                       g.current_row + 1)
         IN  [ws |-> r.ws,
              all_temps |-> CollectTemps(g.all_temps, blocks[k]),
              current_row |-> r.ret + 1]

\* The sheet run_pipeline saves: all blocks written, then the colour scale.
GridOut ==
    LET g == GridAfter(Len(blocks))
    IN  IF g.all_temps # <<>>
        THEN apply_color_scale(g.ws, RatMin(g.all_temps), RatMax(g.all_temps))
        ELSE g.ws

\* C12: the grid is a function of the parsed blocks and the template
\* mapping alone: in whatever order the items of the channel and position
\* maps are visited, the sheet (title rows and texts, written cells and
\* values, colour-scale min/mid/max) is at every block boundary and at the
\* end the one the insertion-order run produces, so two runs on the same
\* input end with the same grid.
C12_GridIndependentOfMapOrder ==
    /\ Running("blocks") =>
           /\ ws = GridAfter(i - 1).ws
           /\ current_row = GridAfter(i - 1).current_row
           /\ title_rows =
                  <<1>> \o [k \in 1..(i - 1) |-> GridAfter(k - 1).current_row]
    /\ pc \in {"save", "done"} => ws = GridOut

\* A finished run that visited its maps in another order than insertion
\* order (all_temps was collected in another order) and wrote cells and a
\* colour scale.
C12_Witness ==
    /\ pc = "done"
    /\ Len(mapping) >= 2 /\ Len(blocks) >= 2
    /\ all_temps # GridAfter(Len(blocks)).all_temps
    /\ avg_temps # calculate_average_temps(blocks)
    /\ ws.cf # <<>>
    /\ NumCells # {}

(***************************************************************************)
(* The window: its two buttons, the worker thread and the main loop        *)
(***************************************************************************)
\* The number of lines of the longest log a run started from the window
\* reads.
MaxGuiLines == 1

\* The most worker threads alive at once: a thread that has made its last
\* call may linger before it ends.
MaxThreads == 2

pipeline_vars ==
    <<pc, err, parser_vars, layout_vars, avg_temps, sheet_vars, saved>>

\* The window before the first click: run_pipeline has not been called.
GuiInit ==
    /\ pc = "idle"
    /\ err = "none"
    /\ lines = <<>>
    /\ blocks = <<>>
    /\ block_titles = <<>>
    /\ current_block = <<>>
    /\ current_title = NoTitle
    /\ mapping = <<>>
    /\ max_template_row = 0
    /\ max_template_col = 0
    /\ avg_temps = <<>>
    /\ ws = NewSheet
    /\ all_temps = <<>>
    /\ current_row = 0
    /\ i = 0
    /\ title_rows = <<>>
    /\ saved = FALSE
    /\ NewWindow

\* A new call of run_pipeline: its locals as Init has them, and the two log
\* calls before parse_data_file still to be made.
CallRunPipeline ==
    /\ pc' = "open"
    /\ err' = "none"
    /\ lines' = <<>>
    /\ blocks' = <<>>
    /\ block_titles' = <<>>
    /\ current_block' = <<>>
    /\ current_title' = NoTitle
    /\ mapping' = <<>>
    /\ max_template_row' = 0
    /\ max_template_col' = 0
    /\ avg_temps' = <<>>
    /\ ws' = NewSheet
    /\ all_temps' = <<>>
    /\ current_row' = 0
    /\ i' = 0
    /\ title_rows' = <<>>
    /\ saved' = FALSE
    /\ to_log' = 2

\* What the three entry fields can hold.
PathTexts == {<<>>, <<" ">>, <<"a">>}

\* The callbacks given to self.after that the main loop has not run yet.
Pending == SubSeq(posted, handled + 1, Len(posted))

\* messagebox.showwarning / showerror / showinfo: the box is shown and the
\* call returns when the user dismisses it (dismiss below).
ShowBox(kind) ==
    /\ dialog' = kind
    /\ boxes' = boxes + 1

\* Mutant of StartedButtonState: the button is left enabled.
StartedButtonStateNormal == NORMAL

\* self.start_button.config(state=tk.DISABLED)
StartedButtonState == DISABLED

\* on_start_clicked, the command of start_button, which Tk invokes only
\* while the button is enabled and no message box holds the input: a
\* warning for an empty field, else the log is cleared, the button disabled
\* and the worker thread started.
on_start_clicked ==
    /\ button = NORMAL
    /\ boxes = 0
    /\ \E data_text, template_text, output_text \in PathTexts :
        LET data_file == Strip(data_text)
            template_file == Strip(template_text)
            output_dir == Strip(output_text)
        IN  IF data_file = <<>> \/ template_file = <<>> \/ output_dir = <<>>
            THEN /\ ShowBox("warning")
                 /\ UNCHANGED <<pipeline_vars, button, threads, wpc, to_log,
                                posted, handled, log_text>>
            ELSE /\ threads < MaxThreads
                 /\ log_text' = 1
                 /\ button' = StartedButtonState
                 /\ threads' = threads + 1
                 /\ wpc' = "run"
                 /\ posted' = Pending
                 /\ handled' = 0
                 /\ CallRunPipeline
                 /\ UNCHANGED <<dialog, boxes>>

\* open_output_dir, the command of the second button, which is never
\* disabled: a warning when the directory does not exist, an error box when
\* starting `open` raises, else nothing the window keeps.
open_output_dir ==
    /\ boxes = 0
    /\ \E exists, raises \in BOOLEAN :
        /\ IF ~exists THEN ShowBox("warning")
           ELSE IF raises THEN ShowBox("error")
           ELSE UNCHANGED <<dialog, boxes>>
    /\ UNCHANGED <<pipeline_vars, button, threads, wpc, to_log, posted,
                   handled, log_text>>

\* The user dismisses the message box on top.
dismiss ==
    /\ boxes > 0
    /\ boxes' = boxes - 1
    /\ UNCHANGED <<pipeline_vars, button, threads, wpc, to_log, posted,
                   handled, dialog, log_text>>

\* One call of log(msg) in the worker thread: self.after(0, self.append_log,
\* msg).
thread_safe_log ==
    /\ wpc = "run"
    /\ to_log > 0
    /\ after(<<"append_log">>)
    /\ to_log' = to_log - 1
    /\ UNCHANGED <<pipeline_vars, button, threads, wpc, handled, dialog,
                   boxes, log_text>>

\* The lines of the logs chosen in the window: a delimiter, a valid reading
\* and a data line whose temperature float() rejects.
GuiLogLines ==
    { SepLine(<<"1">>),
      DataLine(<<"1">>, <<"1">>, <<"5">>),
      DataLine(<<"1">>, <<"1">>, <<"-">>) }

\* ParseLine on a log of at most MaxGuiLines lines out of GuiLogLines.
ParseLineOfGuiLog ==
    /\ Len(lines) < MaxGuiLines
    /\ ParseLine
    /\ lines'[Len(lines')] \in GuiLogLines

\* run_pipeline(..., logger=self.thread_safe_log) in the worker thread.
RunPipelineInThread ==
    \/ thread_safe_log
    \/ DataFileMissing
    \/ OpenDataFile
    \/ ParseLineOfGuiLog
    \/ ParseReturn
    \/ TemplateMissing
    \/ ReadTemplate
    \/ CalcAverage
    \/ WriteAverageSection
    \/ WriteBlock
    \/ ApplyColorScale
    \/ Save

\* One self.after(0, callback) of the worker thread outside run_pipeline.
WorkerPosts(at, callback, to) ==
    /\ wpc = at
    /\ to_log = 0
    /\ after(<<callback>>)
    /\ wpc' = to
    /\ UNCHANGED <<pipeline_vars, button, threads, to_log, handled, dialog,
                   boxes, log_text>>

\* except Exception as e: self.thread_safe_log(err_msg)
WorkerExceptLog ==
    /\ err # "none"
    /\ WorkerPosts("run", "append_log", "except_tb")

\* self.thread_safe_log(tb)
WorkerExceptTraceback == WorkerPosts("except_tb", "append_log", "except_box")

\* self.after(0, lambda: messagebox.showerror("错误", err_msg))
WorkerExceptBox == WorkerPosts("except_box", "showerror", "finally")

\* else: self.thread_safe_log(success_msg)
WorkerElseLog ==
    /\ pc = "done"
    /\ WorkerPosts("run", "append_log", "else_box")

\* self.after(0, lambda: messagebox.showinfo("完成", success_msg))
WorkerElseBox == WorkerPosts("else_box", "showinfo", "finally")

\* finally: self.after(0, lambda: self.start_button.config(state=tk.NORMAL)),
\* the last statement of the thread.
WorkerFinally == WorkerPosts("finally", "enable", "none")

\* The worker threads that have made their last call and have not ended.
Ending == threads - (IF wpc = "none" THEN 0 ELSE 1)

\* self.after has returned to such a thread, _run_pipeline_in_thread
\* returns and the thread ends.
WorkerEnds ==
    /\ Ending > 0
    /\ threads' = threads - 1
    /\ UNCHANGED <<pipeline_vars, button, wpc, to_log, posted, handled,
                   dialog, boxes, log_text>>

\* _run_pipeline_in_thread, statement by statement.
_run_pipeline_in_thread ==
    \/ RunPipelineInThread
    \/ WorkerExceptLog
    \/ WorkerExceptTraceback
    \/ WorkerExceptBox
    \/ WorkerElseLog
    \/ WorkerElseBox
    \/ WorkerFinally
    \/ WorkerEnds

\* app.mainloop(), or the event loop of a message box that is shown, runs
\* the oldest pending callback: append_log, a message box or the
\* re-enabling of the button.
mainloop ==
    /\ handled < Len(posted)
    /\ LET callback == posted[handled + 1]
       IN  /\ handled' = handled + 1
           /\ log_text' = IF callback = "append_log" THEN log_text + 1
                          ELSE log_text
           /\ IF callback = "showerror" THEN ShowBox("error")
              ELSE IF callback = "showinfo" THEN ShowBox("info")
              ELSE UNCHANGED <<dialog, boxes>>
           /\ button' = IF callback = "enable" THEN NORMAL ELSE button
    /\ UNCHANGED <<pipeline_vars, threads, wpc, to_log, posted>>

GuiNext ==
    \/ on_start_clicked
    \/ open_output_dir
    \/ dismiss
    \/ _run_pipeline_in_thread
    \/ mainloop

\* The worker threads keep being scheduled and the main loop keeps running
\* its pending callbacks; nothing obliges the user to click or to dismiss.
SpecGui ==
    GuiInit /\ [][GuiNext]_vars
        /\ WF_vars(_run_pipeline_in_thread) /\ WF_vars(mainloop)

\* The message boxes of the worker given to self.after since the last start.
Notifications ==
    Cardinality({k \in 1..Len(posted) : posted[k] \in {"showerror", "showinfo"}})

\* C13 as claimed: at most one worker thread is alive at any time, and
\* while one is alive the start button is disabled.
C13_ButtonDisabledWhileWorkerAlive ==
    /\ threads <= 1
    /\ threads >= 1 => button = DISABLED

\* C13, amended: a worker is started only when the one before it has made
\* its last call, the posting of the re-enabling; until that call the start
\* button is disabled; no run posts more than one completion or error
\* notification; and every run, whether run_pipeline returned or raised,
\* leads to the button enabled again with exactly one notification posted.
C13_OneRunButtonRestored ==
    /\ [][threads' > threads => wpc = "none"]_vars
    /\ [](wpc # "none" => button = DISABLED)
    /\ [](Notifications <= 1)
    /\ (wpc # "none") ~>
           (wpc = "none" /\ button = NORMAL /\ Notifications = 1)

\* A run that raised has ended: the error box was shown by the worker's
\* callback, every callback has run, the button is enabled again, and the
\* thread is still alive.
C13_Witness ==
    /\ err # "none"
    /\ wpc = "none" /\ threads = 1
    /\ button = NORMAL
    /\ dialog = "error"
    /\ Notifications = 1
    /\ handled = Len(posted) /\ handled > 0

====
